---- MODULE Spec2Model ----
(***************************************************************************)
(* usbmon (src/src/main.rs): wait for one of a set of USB devices,         *)
(* identified by vendor:product pairs, to be attached or detached.         *)
(*                                                                         *)
(* The model follows main() statement by statement.  The USB access layer  *)
(* (rusb / libusb) is the environment: the bus topology changes by Plug    *)
(* and Unplug, a change made while a context exists queues a native        *)
(* notification, and the queued notifications are turned into callbacks    *)
(* only inside ctx.handle_events, on the thread that calls it.             *)
(***************************************************************************)
EXTENDS Integers, Sequences, FiniteSets, TLC

\* ------------------------------------------------------------------ bounds
MaxBus == 2        \* devices on the bus at any time
MaxTargets == 1    \* length of the --id list
MaxEvents == 2     \* topology changes during one run
MaxSnap == 3       \* length of a snapshot given to is_connected alone
MaxIds == 2        \* length of a target list given to is_connected alone
MaxTokLen == 5     \* characters of a field of an --id argument

\* ------------------------------------------------------------ data model
\* struct DeviceID { vid, pid }
DeviceID(v, p) == [vid |-> v, pid |-> p]

\* The identifiers used in the runs: two share the vendor, two the product.
DeviceIDs == {DeviceID(1, 1), DeviceID(1, 2), DeviceID(2, 1)}

\* rusb::Device<T>: what the program reads of it is its descriptor, which
\* device_descriptor() either returns or fails to return.
Device(id, ok) == [id |-> id, descOk |-> ok]

Devices == {Device(id, TRUE) : id \in DeviceIDs} \cup {Device(DeviceID(1, 1), FALSE)}

SeqsUpTo(S, n) == UNION {[1..k -> S] : k \in 0..n}

\* Option<DeviceID>
None == <<>>
Some(id) == <<id>>
is_some(o) == Len(o) = 1

\* rusb::Result<DeviceList>
OkList(l) == [ok |-> TRUE, list |-> l]
ErrList == [ok |-> FALSE, list |-> <<>>]

VARIABLES
    detach, nowait, verbose, ids,   \* struct Args
    text,                           \* an --id argument as typed, a sequence of characters
    parsed,                         \* what parse_device returned for it
    hotplug,                        \* rusb::has_hotplug()
    bus,                            \* devices attached now, in enumeration order
    pending,                        \* native notifications not yet turned into callbacks
    nevents,                        \* topology changes so far
    pc,                             \* position of main()
    exit,                           \* "running", or how main() ended
    enumOk,                         \* the last enumeration call returned a list
    connected,                      \* the last is_connected result
    ctx,                            \* rusb::Context::new() succeeded
    reg,                            \* the Option<Registration> slot
    chan,                           \* the mpsc channel tx -> rx
    dev,                            \* the device last received from rx
    out,                            \* standard output: the identifiers printed
    err,                            \* diagnostic stream: the kinds of lines printed
    calls                           \* how often each library call was made

vars == <<detach, nowait, verbose, ids, text, parsed, hotplug, bus, pending, nevents, pc, exit,
          enumOk, connected, ctx, reg, chan, dev, out, err, calls>>

args == <<detach, nowait, verbose, ids, text, parsed, hotplug>>

\* ---------------------------------------------------------- parse_device
\* type Result<T> = std::result::Result<T, Error>, for T = DeviceID: tag is
\* "Ok" or the variant of enum Error, tok the String the variant carries.
ParseOk(id) == [tag |-> "Ok", id |-> id, tok |-> <<>>]
ParseErr(variant, token) == [tag |-> variant, id |-> DeviceID(0, 0), tok |-> token]

\* parse_device not called yet
Unparsed == [tag |-> "none", id |-> DeviceID(0, 0), tok |-> <<>>]

\* u16::MAX
U16Max == 65535

\* char::to_digit(16): the value of a hexadecimal digit, -1 for another character
ToDigit(c) ==
    CASE c = "0" -> 0 [] c = "1" -> 1 [] c = "2" -> 2 [] c = "3" -> 3
      [] c = "4" -> 4 [] c = "5" -> 5 [] c = "6" -> 6 [] c = "7" -> 7
      [] c = "8" -> 8 [] c = "9" -> 9
      [] c \in {"a", "A"} -> 10 [] c \in {"b", "B"} -> 11 [] c \in {"c", "C"} -> 12
      [] c \in {"d", "D"} -> 13 [] c \in {"e", "E"} -> 14 [] c \in {"f", "F"} -> 15
      [] OTHER -> -1

\* the digit loop of u16::from_str_radix: checked_mul by the radix and
\* checked_add of the digit; -1 for an invalid digit or an overflow
RECURSIVE Digits(_, _, _)
Digits(src, i, acc) ==
    IF i > Len(src) THEN acc
    ELSE IF ToDigit(src[i]) < 0 THEN -1
    ELSE IF acc * 16 + ToDigit(src[i]) > U16Max THEN -1
    ELSE Digits(src, i + 1, acc * 16 + ToDigit(src[i]))

\* u16::from_str_radix(src, 16): an optional + sign, then digits; -1 for Err
from_str_radix(src) ==
    IF src = <<>> THEN -1
    ELSE IF src[1] \in {"+", "-"} /\ Len(src) = 1 THEN -1
    ELSE IF src[1] = "+" THEN Digits(src, 2, 0)
    ELSE Digits(src, 1, 0)

\* arg.split(":").collect(): the fields between the separators
RECURSIVE Split(_, _, _)
Split(arg, i, field) ==
    IF i > Len(arg) THEN <<field>>
    ELSE IF arg[i] = ":" THEN <<field>> \o Split(arg, i + 1, <<>>)
    ELSE Split(arg, i + 1, Append(field, arg[i]))

\* the product id taken from the first field
parse_deviceVidTwice(arg) ==
    LET vec == Split(arg, 1, <<>>) IN
    IF Len(vec) < 2 THEN ParseErr("MissingSeparator", <<>>)
    ELSE IF from_str_radix(vec[1]) < 0 THEN ParseErr("InvalidVID", vec[1])
    ELSE IF from_str_radix(vec[2]) < 0 THEN ParseErr("InvalidPID", vec[2])
    ELSE ParseOk(DeviceID(from_str_radix(vec[1]), from_str_radix(vec[1])))

\* fn parse_device(arg: &str) -> Result<DeviceID>
parse_device(arg) ==
    LET vec == Split(arg, 1, <<>>) IN
    IF Len(vec) < 2 THEN ParseErr("MissingSeparator", <<>>)
    ELSE IF from_str_radix(vec[1]) < 0 THEN ParseErr("InvalidVID", vec[1])
    ELSE IF from_str_radix(vec[2]) < 0 THEN ParseErr("InvalidPID", vec[2])
    ELSE ParseOk(DeviceID(from_str_radix(vec[1]), from_str_radix(vec[2])))

\* -------------------------------------------------------- pure functions
\* the comparison with the product id left out
RECURSIVE IdMatchesVendorOnly(_, _, _)
IdMatchesVendorOnly(desc, targets, j) ==
    IF j > Len(targets) THEN FALSE
    ELSE IF desc.vid = targets[j].vid THEN TRUE
    ELSE IdMatchesVendorOnly(desc, targets, j + 1)

\* ids.iter().find(|id| desc.vendor_id() == id.vid && desc.product_id() == id.pid).is_some()
RECURSIVE IdMatches(_, _, _)
IdMatches(desc, targets, j) ==
    IF j > Len(targets) THEN FALSE
    ELSE IF desc.vid = targets[j].vid /\ desc.pid = targets[j].pid THEN TRUE
    ELSE IdMatches(desc, targets, j + 1)

\* devices.iter().find(|dev| { let desc = dev.device_descriptor().unwrap(); ... }):
\* the index of the first device one of the targets matches, 0 when there is
\* none, -1 when the unwrap of a failed descriptor read panics before that.
RECURSIVE FindDevice(_, _, _)
FindDevice(list, targets, i) ==
    IF i > Len(list) THEN 0
    ELSE IF ~list[i].descOk THEN -1
    ELSE IF IdMatches(list[i].id, targets, 1) THEN i
    ELSE FindDevice(list, targets, i + 1)

\* the enumeration result unwrapped instead of matched
is_connectedUnwrap(devs, targets) ==
    IF ~devs.ok THEN [panic |-> TRUE, val |-> None]
    ELSE LET i == FindDevice(devs.list, targets, 1) IN
         IF i = -1 THEN [panic |-> TRUE, val |-> None]
         ELSE IF i = 0 THEN [panic |-> FALSE, val |-> None]
         ELSE [panic |-> FALSE,
               val |-> Some(DeviceID(devs.list[i].id.vid, devs.list[i].id.pid))]

\* fn is_connected(devices, ids) -> Option<DeviceID>; panic: the call unwinds.
is_connected(devs, targets) ==
    IF ~devs.ok THEN [panic |-> FALSE, val |-> None]
    ELSE LET i == FindDevice(devs.list, targets, 1) IN
         IF i = -1 THEN [panic |-> TRUE, val |-> None]
         ELSE IF i = 0 THEN [panic |-> FALSE, val |-> None]
         ELSE [panic |-> FALSE,
               val |-> Some(DeviceID(devs.list[i].id.vid, devs.list[i].id.pid))]

\* let attach = !args.detach;
attach == ~detach

\* && written for ^
SatisfiedAnd(c, att) == is_some(c) /\ (~att)

\* the mode left out
SatisfiedIgnoresMode(c, att) == is_some(c)

\* the detach mode never satisfied
SatisfiedAttachOnly(c, att) == is_some(c) /\ att

\* connected.is_some() ^ !attach
Satisfied(c, att) == is_some(c) # (~att)

\* one more call of a library function
Called(f) == [calls EXCEPT ![f] = @ + 1]

CallNames == {"devices", "context", "register", "unregister", "handle_events", "recv"}

\* ----------------------------------------------------------------- Init
InitWith(targetLists, buses, texts) ==
    /\ detach \in BOOLEAN
    /\ nowait \in BOOLEAN
    /\ verbose \in BOOLEAN
    /\ hotplug \in BOOLEAN
    /\ ids \in targetLists
    /\ text \in texts
    /\ parsed = Unparsed
    /\ bus \in buses
    /\ pending = <<>>
    /\ nevents = 0
    /\ pc = "start"
    /\ exit = "running"
    /\ enumOk = TRUE
    /\ connected = None
    /\ ctx = FALSE
    /\ reg = "None"
    /\ chan = <<>>
    /\ dev = <<>>
    /\ out = <<>>
    /\ err = <<>>
    /\ calls = [f \in CallNames |-> 0]

Init == InitWith(SeqsUpTo(DeviceIDs, MaxTargets), SeqsUpTo(Devices, MaxBus), {<<>>})

\* ------------------------------------------------------ the environment
\* A device is attached.  libusb queues the notification for a context that
\* exists; with no context there is nobody to notify.  A change made before
\* the first enumeration is a run from another initial bus.
Plug(d) ==
    /\ exit = "running"
    /\ pc # "start"
    /\ nevents < MaxEvents
    /\ Len(bus) < MaxBus
    /\ bus' = Append(bus, d)
    /\ pending' = IF ctx THEN Append(pending, [dev |-> d, kind |-> "arrived"]) ELSE pending
    /\ nevents' = nevents + 1
    /\ UNCHANGED <<args, pc, exit, enumOk, connected, ctx, reg, chan, dev, out, err, calls>>

\* The i-th device of the bus is detached.
Unplug(i) ==
    /\ exit = "running"
    /\ pc # "start"
    /\ nevents < MaxEvents
    /\ i \in 1..Len(bus)
    /\ bus' = SubSeq(bus, 1, i - 1) \o SubSeq(bus, i + 1, Len(bus))
    /\ pending' = IF ctx THEN Append(pending, [dev |-> bus[i], kind |-> "left"]) ELSE pending
    /\ nevents' = nevents + 1
    /\ UNCHANGED <<args, pc, exit, enumOk, connected, ctx, reg, chan, dev, out, err, calls>>

\* rusb::devices() / ctx.devices(): the devices attached now, or an error.
Enumerations == {OkList(bus), ErrList}

\* ------------------------------------------------------- HotPlugHandler
\* fn device_arrived(&mut self, device) { _ = self.sender.send(device); }
device_arrived(ch, d) == Append(ch, d)

\* a departure not forwarded
device_leftDropped(ch, d) == ch

\* fn device_left(&mut self, device) { _ = self.sender.send(device); }
device_left(ch, d) == Append(ch, d)

\* The callbacks one handle_events call makes, in the order the
\* notifications were queued.
RECURSIVE Deliver(_, _)
Deliver(ch, msgs) ==
    IF msgs = <<>> THEN ch
    ELSE Deliver(IF Head(msgs).kind = "arrived"
                 THEN device_arrived(ch, Head(msgs).dev)
                 ELSE device_left(ch, Head(msgs).dev),
                 Tail(msgs))

\* --------------------------------------------------------------- main()
Say(line, when) == IF when THEN Append(err, line) ELSE err

\* main() ends: Ok(()), Err(NoDevice), a propagated rusb error, or a panic.
Ends(how) == exit' = how /\ pc' = "done"

\* lines 133-140: the verbose banner and the initial presence check
InitialCheck ==
    /\ pc = "start"
    /\ err' = Say("waiting_for", verbose)
    /\ calls' = Called("devices")
    /\ \E d \in Enumerations :
         /\ enumOk' = d.ok
         /\ IF is_connected(d, ids).panic
            THEN Ends("panic") /\ connected' = connected
            ELSE connected' = is_connected(d, ids).val /\ pc' = "decide" /\ exit' = exit
    /\ UNCHANGED <<args, bus, pending, nevents, ctx, reg, chan, dev, out>>

\* lines 141-146: the condition holds already
ImmediateDecision ==
    /\ pc = "decide"
    /\ Satisfied(connected, attach)
    /\ out' = IF is_some(connected) THEN Append(out, connected[1]) ELSE out
    /\ Ends("ok")
    /\ UNCHANGED <<args, bus, pending, nevents, enumOk, connected, ctx, reg, chan, dev,
                   err, calls>>

\* Ok(()) returned for Err(NoDevice)
NoWaitReturnsOk ==
    /\ pc = "decide"
    /\ ~Satisfied(connected, attach)
    /\ nowait
    /\ Ends("ok")
    /\ UNCHANGED <<args, bus, pending, nevents, enumOk, connected, ctx, reg, chan, dev,
                   out, err, calls>>

\* lines 148-150: --nowait
NoWait ==
    /\ pc = "decide"
    /\ ~Satisfied(connected, attach)
    /\ nowait
    /\ Ends("NoDevice")
    /\ UNCHANGED <<args, bus, pending, nevents, enumOk, connected, ctx, reg, chan, dev,
                   out, err, calls>>

\* the missing facility reported as a failure, without the advisory line
UnsupportedFails ==
    /\ pc = "decide"
    /\ ~Satisfied(connected, attach)
    /\ ~nowait
    /\ ~hotplug
    /\ err' = Say("waiting_events", verbose)
    /\ Ends("error")
    /\ UNCHANGED <<args, bus, pending, nevents, enumOk, connected, ctx, reg, chan, dev,
                   out, calls>>

\* lines 152-158, 188-191: rusb::has_hotplug() is false
Unsupported ==
    /\ pc = "decide"
    /\ ~Satisfied(connected, attach)
    /\ ~nowait
    /\ ~hotplug
    /\ err' = Append(Say("waiting_events", verbose), "unsupported")
    /\ Ends("ok")
    /\ UNCHANGED <<args, bus, pending, nevents, enumOk, connected, ctx, reg, chan, dev,
                   out, calls>>

\* lines 152-160: rusb::Context::new()? and the channel
CreateContext ==
    /\ pc = "decide"
    /\ ~Satisfied(connected, attach)
    /\ ~nowait
    /\ hotplug
    /\ err' = Say("waiting_events", verbose)
    /\ calls' = Called("context")
    /\ \/ ctx' = TRUE /\ pc' = "register" /\ exit' = exit
       \/ ctx' = ctx /\ Ends("error")
    /\ chan' = <<>>
    /\ UNCHANGED <<args, bus, pending, nevents, enumOk, connected, reg, dev, out>>

\* lines 161-165: HotplugBuilder::new().enumerate(false).register(..)?
Register ==
    /\ pc = "register"
    /\ calls' = Called("register")
    /\ \/ reg' = "Some" /\ pc' = "pump" /\ exit' = exit
       \/ reg' = reg /\ Ends("error")
    /\ UNCHANGED <<args, bus, pending, nevents, enumOk, connected, ctx, chan, dev, out, err>>

\* lines 168-171: ctx.handle_events(None) returns after making the callbacks
\* of the queued notifications
PumpEvents ==
    /\ pc = "pump"
    /\ pending # <<>>
    /\ err' = Say("loop", verbose)
    /\ calls' = Called("handle_events")
    /\ chan' = Deliver(chan, pending)
    /\ pending' = <<>>
    /\ pc' = "recv"
    /\ UNCHANGED <<args, bus, nevents, exit, enumOk, connected, ctx, reg, dev, out>>

\* lines 168-171: ctx.handle_events(None) returns when its wait times out
\* with nothing to handle
PumpTimeout ==
    /\ pc = "pump"
    /\ pending = <<>>
    /\ err' = Say("loop", verbose)
    /\ calls' = Called("handle_events")
    /\ pc' = "recv"
    /\ UNCHANGED <<args, bus, pending, nevents, exit, enumOk, connected, ctx, reg, chan,
                   dev, out>>

\* line 171: ctx.handle_events(None) fails and the unwrap panics
PumpFails ==
    /\ pc = "pump"
    /\ err' = Say("loop", verbose)
    /\ calls' = Called("handle_events")
    /\ Ends("panic")
    /\ UNCHANGED <<args, bus, pending, nevents, enumOk, connected, ctx, reg, chan, dev, out>>

\* line 172: rx.recv().unwrap() blocks until the channel holds a device
Recv ==
    /\ pc = "recv"
    /\ chan # <<>>
    /\ dev' = <<Head(chan)>>
    /\ chan' = Tail(chan)
    /\ calls' = Called("recv")
    /\ pc' = "event"
    /\ UNCHANGED <<args, bus, pending, nevents, exit, enumOk, connected, ctx, reg, out, err>>

\* the loop left without unregister_callback
DecideKeepsRegistration(c) ==
    IF Satisfied(c, attach) /\ reg = "Some"
    THEN /\ calls' = Called("devices")
         /\ pc' = "report"
         /\ UNCHANGED <<reg, out, exit>>
    ELSE /\ calls' = Called("devices")
         /\ pc' = "pump"
         /\ UNCHANGED <<reg, out, exit>>

\* the backlog of the channel drained without a pump in between
DecideSkipsPump(c) ==
    IF Satisfied(c, attach) /\ reg = "Some"
    THEN /\ reg' = "None"
         /\ calls' = [calls EXCEPT !["devices"] = @ + 1, !["unregister"] = @ + 1]
         /\ pc' = "report"
         /\ UNCHANGED <<out, exit>>
    ELSE /\ calls' = Called("devices")
         /\ pc' = IF chan # <<>> THEN "recv" ELSE "pump"
         /\ UNCHANGED <<reg, out, exit>>

\* the decision taken from the event's device instead of the fresh result
DecideFromEvent(c) ==
    IF Satisfied(IF IdMatches(dev[1].id, ids, 1) THEN Some(dev[1].id) ELSE None, attach)
       /\ reg = "Some"
    THEN /\ reg' = "None"
         /\ calls' = [calls EXCEPT !["devices"] = @ + 1, !["unregister"] = @ + 1]
         /\ pc' = "report"
         /\ UNCHANGED <<out, exit>>
    ELSE /\ calls' = Called("devices")
         /\ pc' = "pump"
         /\ UNCHANGED <<reg, out, exit>>

\* the identifier printed before the registration is released
DecideReportsFirst(c) ==
    IF Satisfied(c, attach) /\ reg = "Some"
    THEN /\ calls' = Called("devices")
         /\ out' = Append(out, DeviceID(dev[1].id.vid, dev[1].id.pid))
         /\ pc' = "report"
         /\ UNCHANGED <<reg, exit>>
    ELSE /\ calls' = Called("devices")
         /\ pc' = "pump"
         /\ UNCHANGED <<reg, out, exit>>

\* reg.take() evaluated before the condition
DecideTakesFirst(c) ==
    /\ reg' = "None"
    /\ UNCHANGED <<out, exit>>
    /\ IF Satisfied(c, attach) /\ reg = "Some"
       THEN /\ calls' = [calls EXCEPT !["devices"] = @ + 1, !["unregister"] = @ + 1]
            /\ pc' = "report"
       ELSE /\ calls' = Called("devices")
            /\ pc' = "pump"

\* lines 179-181, given the fresh result c: when the condition holds, take
\* the registration out of its slot and release it; otherwise go on looping
Decide(c) ==
    IF Satisfied(c, attach) /\ reg = "Some"
    THEN /\ reg' = "None"
         /\ calls' = [calls EXCEPT !["devices"] = @ + 1, !["unregister"] = @ + 1]
         /\ pc' = "report"
         /\ UNCHANGED <<out, exit>>
    ELSE /\ calls' = Called("devices")
         /\ pc' = "pump"
         /\ UNCHANGED <<reg, out, exit>>

\* lines 173-181: the event's descriptor, the fresh presence check, the decision
LoopDecide ==
    /\ pc = "event"
    /\ IF ~dev[1].descOk
       THEN Ends("panic") /\ UNCHANGED <<enumOk, connected, reg, out, err, calls>>
       ELSE \E d \in Enumerations :
              /\ enumOk' = d.ok
              /\ IF is_connected(d, ids).panic
                 THEN /\ Ends("panic")
                      /\ calls' = Called("devices")
                      /\ UNCHANGED <<connected, reg, out, err>>
                 ELSE /\ connected' = is_connected(d, ids).val
                      /\ err' = Say("event", verbose)
                      /\ Decide(connected')
    /\ UNCHANGED <<args, bus, pending, nevents, ctx, chan, dev>>

\* the break left out
ReportKeepsLooping ==
    /\ pc = "report"
    /\ out' = Append(out, DeviceID(dev[1].id.vid, dev[1].id.pid))
    /\ pc' = "pump"
    /\ UNCHANGED <<args, bus, pending, nevents, exit, enumOk, connected, ctx, reg, chan,
                   dev, err, calls>>

\* lines 182-187: print the identifier read from the event's device, leave
\* the loop and return Ok(())
Report ==
    /\ pc = "report"
    /\ out' = Append(out, DeviceID(dev[1].id.vid, dev[1].id.pid))
    /\ Ends("ok")
    /\ UNCHANGED <<args, bus, pending, nevents, enumOk, connected, ctx, reg, chan, dev,
                   err, calls>>

Program ==
    \/ InitialCheck
    \/ ImmediateDecision
    \/ NoWait
    \/ Unsupported
    \/ CreateContext
    \/ Register
    \/ PumpEvents
    \/ Recv
    \/ LoopDecide
    \/ Report

Next ==
    \/ Program
    \/ PumpTimeout
    \/ PumpFails
    \/ \E d \in Devices : Plug(d)
    \/ \E i \in 1..MaxBus : Unplug(i)

\* every step main() itself takes
MainStep == Program \/ PumpTimeout \/ PumpFails

Spec == Init /\ [][Next]_vars

\* main() runs on: a step it can take is taken.  Nothing makes handle_events
\* time out or fail, and nothing makes the bus change.
FairSpec == Spec /\ WF_vars(Program)

\* is_connected alone, on every snapshot and target list within the bounds
InitCheck == InitWith(SeqsUpTo(DeviceIDs, MaxIds), SeqsUpTo(Devices, MaxSnap), {<<>>})

SpecCheck == InitCheck /\ [][InitialCheck]_vars

\* The characters of the arguments tried: two spellings of one digit, another
\* digit, a letter that is no digit.
FieldChars == {"0", "f", "F", "g"}

Fields == SeqsUpTo(FieldChars, MaxTokLen)

\* a few fields, those with a sign among them
FewFields == {<<>>, <<"0">>, <<"F">>, <<"f", "0">>, <<"g">>, <<"+">>, <<"+", "f">>, <<"-", "f">>}

\* what may follow the second field
Rests == {<<>>, <<":">>, <<":", "g">>}

\* texts with no separator, and texts of two fields or more, one of the
\* first two taken from all the fields within the bound
Texts ==
    Fields \cup FewFields
    \cup {f \o <<":">> \o g \o r : f \in Fields, g \in FewFields, r \in Rests}
    \cup {g \o <<":">> \o f \o r : f \in Fields, g \in FewFields, r \in Rests}

\* lines 116-117: clap calls the value parser on an --id argument
ParseArg ==
    /\ parsed = Unparsed
    /\ parsed' = parse_device(text)
    /\ UNCHANGED <<detach, nowait, verbose, ids, text, hotplug, bus, pending, nevents, pc,
                   exit, enumOk, connected, ctx, reg, chan, dev, out, err, calls>>

\* parse_device alone, on every text within the bounds
InitParse ==
    /\ InitWith({<<>>}, {<<>>}, Texts)
    /\ ~detach /\ ~nowait /\ ~verbose /\ ~hotplug

SpecParse == InitParse /\ [][ParseArg]_vars

\* ------------------------------------------------------------ the claims
Range(q) == {q[i] : i \in 1..Len(q)}

\* the initial presence check has returned, and nothing else was checked since
InitialResult == pc # "start" /\ exit # "panic" /\ calls["devices"] = 1

\* no context, no registration, no pump, no receive
NothingRegistered ==
    /\ ~ctx
    /\ reg = "None"
    /\ calls["context"] = 0
    /\ calls["register"] = 0
    /\ calls["handle_events"] = 0
    /\ calls["recv"] = 0
    /\ calls["unregister"] = 0

Advisories == SelectSeq(err, LAMBDA l : l = "unsupported")

\* C1: in attach mode, when the initial check finds a target, the run ends
\* with Ok(()) having printed exactly the matched identifier, and it creates
\* no context, registers nothing, never pumps and never receives.
C1_AttachFastPath ==
    (attach /\ InitialResult /\ is_some(connected)) =>
        /\ NothingRegistered
        /\ pc \in {"decide", "done"}
        /\ pc = "decide" => out = <<>> /\ ENABLED ImmediateDecision /\ ~ENABLED CreateContext
        /\ pc = "done" => exit = "ok" /\ out = <<connected[1]>>

C1_Witness ==
    /\ attach /\ InitialResult /\ is_some(connected)
    /\ pc = "done" /\ exit = "ok" /\ out = <<connected[1]>>
    /\ Len(bus) = 2 /\ bus[2].id = connected[1]

\* C2: in detach mode, when the initial check finds no target, the run ends
\* with Ok(()), prints nothing and never registers.
C2_DetachFastPath ==
    (detach /\ InitialResult /\ ~is_some(connected)) =>
        /\ NothingRegistered
        /\ out = <<>>
        /\ pc \in {"decide", "done"}
        /\ pc = "decide" => ENABLED ImmediateDecision /\ ~ENABLED CreateContext
        /\ pc = "done" => exit = "ok"

C2_Witness ==
    /\ detach /\ InitialResult /\ ~is_some(connected)
    /\ pc = "done" /\ exit = "ok" /\ out = <<>>
    /\ enumOk /\ bus # <<>> /\ ids # <<>>

\* C3: with --nowait, when the condition (present XOR detach) is false after
\* the initial check, the run ends with Err(NoDevice), prints no identifier
\* and never registers, pumps or receives; a --nowait run never enters the
\* wait loop.
C3_NoWaitMode ==
    /\ nowait => NothingRegistered /\ pc \in {"start", "decide", "done"}
    /\ (nowait /\ InitialResult /\ (is_some(connected) = detach)) =>
          /\ out = <<>>
          /\ pc = "decide" => ENABLED NoWait /\ ~ENABLED ImmediateDecision
          /\ pc = "done" => exit = "NoDevice"

C3_Witness ==
    /\ nowait /\ InitialResult /\ (is_some(connected) = detach)
    /\ pc = "done" /\ exit = "NoDevice" /\ out = <<>>
    /\ detach /\ is_some(connected)

\* C4: when the condition is unmet after the initial check, --nowait is not
\* given and has_hotplug() is false, the run ends with Ok(()) after exactly
\* one advisory line, the last of the diagnostic stream, with no context, no
\* registration, no pump and nothing on standard output.
C4_UnsupportedHotplug ==
    (~nowait /\ ~hotplug /\ InitialResult /\ (is_some(connected) = detach)) =>
        /\ NothingRegistered
        /\ out = <<>>
        /\ pc \in {"decide", "done"}
        /\ pc = "decide" => Advisories = <<>> /\ ENABLED Unsupported
        /\ pc = "done" =>
              /\ exit = "ok"
              /\ Len(Advisories) = 1
              /\ err[Len(err)] = "unsupported"
              /\ ~verbose => err = <<"unsupported">>

C4_Witness ==
    /\ ~nowait /\ ~hotplug /\ InitialResult /\ (is_some(connected) = detach)
    /\ pc = "done" /\ exit = "ok" /\ err = <<"unsupported">> /\ out = <<>>

\* main() returned Ok(()) out of the wait loop
EventDrivenEnd == pc = "done" /\ exit = "ok" /\ calls["recv"] >= 1

\* C5: the registration is created at most once and released at most once;
\* a run that ends through the event-driven path released it exactly once,
\* whatever the number of iterations, and a run that registered nothing
\* (fast path, --nowait, unsupported) released nothing.
C5_ExactlyOnceDeregistration ==
    /\ calls["register"] <= 1
    /\ calls["unregister"] <= calls["register"]
    /\ reg = "Some" => calls["register"] = 1 /\ calls["unregister"] = 0
    /\ EventDrivenEnd => calls["unregister"] = 1 /\ reg = "None"
    /\ (pc = "done" /\ calls["recv"] = 0) => calls["unregister"] = 0

C5_Witness ==
    /\ EventDrivenEnd
    /\ calls["recv"] = 2
    /\ calls["unregister"] = 1

\* C6: when the wait loop ends after an event, in attach mode the printed
\* identifier is the target the fresh presence check matched, a member of the
\* target list; in detach mode it is the identifier of the event's device.
C6_ReportedIdentifier ==
    EventDrivenEnd =>
        IF attach
        THEN is_some(connected) /\ out = <<connected[1]>> /\ out[1] \in Range(ids)
        ELSE out = <<dev[1].id>>

\* C7: when handle_events has returned without a callback having fired, so
\* that main() is at the receive with an empty channel, main() can take a
\* further step (another pump) instead of staying blocked.
C7_LoopIteratesAgain ==
    (pc = "recv" /\ chan = <<>>) => ENABLED MainStep

\* attach: a target is on the bus; detach: none is
DesiredHolds == (\E i \in 1..Len(bus) : bus[i].id \in Range(ids)) = attach

\* C8: without --nowait and with hotplug supported, if from some point after
\* the initial check on the desired condition holds on the bus for good, and
\* no library call fails, main() eventually returns Ok(()).
C8_WaitLoopLiveness ==
    (/\ ~nowait
     /\ hotplug
     /\ [](exit \notin {"error", "panic"})
     /\ []enumOk
     /\ <>[](pc # "start" /\ DesiredHolds))
        => <>(pc = "done" /\ exit = "ok")

\* C9: a run prints at most one identifier line; a run that ends with Ok(())
\* out of the wait loop or the attach fast path has printed exactly one, the
\* detach fast path and the unsupported path none; once a line is printed
\* main() has returned and makes no further pump, receive or check.
C9_OutputCount ==
    /\ Len(out) <= 1
    /\ out # <<>> => pc = "done" /\ exit = "ok" /\ ~ENABLED MainStep
    /\ (pc = "done" /\ exit = "ok") =>
          Len(out) = IF calls["recv"] >= 1 THEN 1
                     ELSE IF Advisories # <<>> THEN 0
                     ELSE IF attach THEN 1 ELSE 0

C9_Witness ==
    /\ EventDrivenEnd
    /\ detach
    /\ Len(out) = 1
    /\ calls["handle_events"] = 2

\* the first device of the snapshot whose identifier is one of the targets
FirstMatch(list, targets) ==
    LET M == {i \in 1..Len(list) : \E j \in 1..Len(targets) : targets[j] = list[i].id}
    IN IF M = {} THEN None
       ELSE Some(list[CHOOSE i \in M : \A k \in M : i <= k].id)

Readable(list) == \A i \in 1..Len(list) : list[i].descOk

\* C10: on a snapshot of devices with readable descriptors is_connected
\* returns Some(id) for the first device in snapshot order whose
\* (vendor, product) pair is one of the targets, None when there is none or
\* there are no targets; the result is the same for every target list with
\* the same entries, in any order and with any duplication.
C10_PresenceCheckResult ==
    (pc = "decide" /\ enumOk /\ Readable(bus)) =>
        /\ connected = FirstMatch(bus, ids)
        /\ ids = <<>> => connected = None
        /\ \A t \in SeqsUpTo(DeviceIDs, MaxIds) :
              Range(t) = Range(ids) => is_connected(OkList(bus), t).val = connected

C10_Witness ==
    /\ pc = "decide" /\ enumOk /\ Readable(bus)
    /\ Len(bus) = 3 /\ Len(ids) = 2
    /\ bus[1].id \notin Range(ids)
    /\ ids[1] = bus[3].id /\ ids[2] = bus[2].id /\ ids[1] # ids[2]
    /\ connected = Some(bus[2].id)


\* the entries of a snapshot whose descriptor can be read
ReadableOnly(list) == SelectSeq(list, LAMBDA d : d.descOk)

\* C11: an entry of the snapshot whose descriptor cannot be read is skipped
\* as a mismatch: the presence check returns what the other entries
\* determine, and neither the check nor the run is aborted.
C11_DescriptorFailureIsLocal ==
    (pc # "start" /\ enumOk) =>
        /\ exit # "panic"
        /\ connected = FirstMatch(ReadableOnly(bus), ids)

\* a step that enumerates the devices and gets an error
EnumerationFails == calls'["devices"] = calls["devices"] + 1 /\ ~enumOk'

\* C12: whenever the enumeration call fails, at the initial check or in the
\* loop, the presence check returns None and the run goes on as with no
\* target present; the failure never ends the run with an error.
C12_EnumerationFailureIsAbsence ==
    [][EnumerationFails =>
          /\ connected' = None
          /\ exit' \notin {"panic", "error", "NoDevice"}
          /\ pc = "start" => pc' = "decide" /\ exit' = "running"
          /\ pc = "event" => IF attach THEN pc' = "pump" /\ exit' = "running"
                             ELSE pc' = "report" /\ exit' = "running"]_vars

C12_Witness ==
    /\ ~enumOk /\ calls["devices"] = 2 /\ connected = None
    /\ attach /\ pc = "pump" /\ exit = "running"
    /\ \E i \in 1..Len(bus) : bus[i].id \in Range(ids)


\* a target is in the list the enumeration of this step returned
SnapshotHasTarget == enumOk' /\ \E i \in 1..Len(bus) : bus[i].id \in Range(ids)

\* C15: at every iteration that takes its fresh snapshot, whether the loop
\* ends or polls again is decided by that snapshot, the targets and the
\* detach flag alone, whatever device the event carried and whether it
\* arrived or left.
C15_DecisionIgnoresPayload ==
    [][(pc = "event" /\ calls'["devices"] = calls["devices"] + 1 /\ exit' # "panic") =>
          /\ pc' \in {"report", "pump"}
          /\ pc' = "report" <=> (SnapshotHasTarget # detach)
          /\ calls'["unregister"] = calls["unregister"] + 1 <=> (SnapshotHasTarget # detach)]_vars

C15_Witness ==
    /\ pc = "pump" /\ calls["devices"] = 2 /\ enumOk
    /\ attach /\ connected = None
    /\ dev[1].id \in Range(ids)

\* the devices of the notifications raised and not yet received, oldest first
InFlight == chan \o [i \in 1..Len(pending) |-> pending[i].dev]

\* C16: arrivals and departures go through one channel and are received in
\* the order they were raised: a raised notification is added at the end of
\* those in flight, a receive takes the oldest, and nothing else changes
\* them (no loss, duplication or reordering), several callbacks of one pump
\* and a backlog received in later iterations included.
C16_EventOrdering ==
    [][/\ (nevents' # nevents /\ ctx) =>
              /\ pending' # <<>>
              /\ InFlight' = Append(InFlight, pending'[Len(pending')].dev)
              /\ dev' = dev
       /\ calls'["recv"] # calls["recv"] =>
              /\ InFlight # <<>>
              /\ dev' = <<Head(InFlight)>>
              /\ InFlight' = Tail(InFlight)
       /\ (calls'["recv"] = calls["recv"] /\ ~(nevents' # nevents /\ ctx)) =>
              /\ InFlight' = InFlight
              /\ dev' = dev]_vars

C16_Witness ==
    /\ pc = "event" /\ calls["handle_events"] = 1 /\ calls["recv"] = 1
    /\ Len(chan) = 1 /\ dev[1] # chan[1]

\* C17: on the event-driven path the registration is released before the
\* identifier line is written, and once the line is written no callback can
\* put an event on the channel.
C17_DeregistrationPrecedesReport ==
    /\ pc = "report" => reg = "None" /\ calls["unregister"] = 1 /\ out = <<>>
    /\ (out # <<>> /\ calls["recv"] >= 1) =>
          /\ reg = "None"
          /\ calls["unregister"] = 1
          /\ ~ENABLED PumpEvents

C17_Witness ==
    /\ pc = "done" /\ exit = "ok" /\ calls["recv"] >= 1
    /\ out # <<>> /\ reg = "None" /\ pending # <<>>

\* C18: an iteration is one pump, then one receive, then one fresh check:
\* never two pumps without a receive between them nor two receives without a
\* pump, so after n iterations n events were received and n pumps returned.
C18_LockStep ==
    LET h == calls["handle_events"]
        r == calls["recv"]
        d == calls["devices"]
    IN /\ h - r \in {0, 1}
       /\ d - r \in {0, 1}
       /\ pc = "pump" => h = r /\ d = r + 1
       /\ pc = "recv" => h = r + 1 /\ d = r + 1
       /\ pc = "event" => h = r /\ d = r
       /\ pc = "report" => h = r /\ d = r + 1

C18_Witness ==
    /\ pc = "pump"
    /\ calls["handle_events"] = 2 /\ calls["recv"] = 2 /\ calls["devices"] = 3

\* C19: the registration, which owns the only sender, is held at every
\* receive and at every evaluation of the condition in the loop, so a receive
\* never sees the channel disconnected; the loop goes on only when the
\* condition was false, and a true condition ends it in that iteration.
C19_RegistrationHeldInLoop ==
    /\ pc \in {"pump", "recv", "event"} => reg = "Some" /\ ctx
    /\ (pc = "pump" /\ calls["devices"] >= 2) => (is_some(connected) = detach)
    /\ pc = "report" => (is_some(connected) # detach)
    /\ pc = "recv" => (chan # <<>> => ENABLED Recv)

C19_Witness ==
    /\ pc = "event" /\ calls["recv"] = 2 /\ reg = "Some"

\* C20: in detach mode a failed enumeration satisfies the condition: at the
\* initial check the run ends with Ok(()), silently and without registering;
\* after an event it releases the registration, prints the event's
\* identifier and ends with Ok(()), also with a target still attached.  In
\* attach mode the failed enumeration ends nothing.
C20_DetachEnumerationFailure ==
    (pc # "start" /\ ~enumOk) =>
        /\ connected = None
        /\ (detach /\ calls["devices"] = 1) =>
              /\ NothingRegistered
              /\ out = <<>>
              /\ pc \in {"decide", "done"}
              /\ pc = "decide" => ENABLED ImmediateDecision
              /\ pc = "done" => exit = "ok"
        /\ (detach /\ calls["devices"] >= 2) =>
              /\ reg = "None" /\ calls["unregister"] = 1
              /\ pc \in {"report", "done"}
              /\ pc = "done" => exit = "ok" /\ out = <<dev[1].id>>
        /\ attach => out = <<>> /\ calls["unregister"] = 0 /\ pc # "report"

C20_Witness ==
    /\ detach /\ ~enumOk /\ calls["devices"] = 2
    /\ pc = "done" /\ exit = "ok" /\ out = <<dev[1].id>>
    /\ \E i \in 1..Len(bus) : bus[i].id \in Range(ids)


\* the places of the separators in the text
Colons == {i \in 1..Len(text) : text[i] = ":"}

\* the text up to its first separator
Field1 == SubSeq(text, 1, (CHOOSE i \in Colons : \A k \in Colons : i <= k) - 1)

\* the text between its first separator and the next one, or its end
Field2 ==
    LET c == CHOOSE i \in Colons : \A k \in Colons : i <= k
        later == {i \in Colons : i > c}
    IN SubSeq(text, c + 1,
              IF later = {} THEN Len(text)
              ELSE (CHOOSE i \in later : \A k \in later : i <= k) - 1)

HexChars == {"0", "1", "2", "3", "4", "5", "6", "7", "8", "9",
             "a", "b", "c", "d", "e", "f", "A", "B", "C", "D", "E", "F"}

\* the number a hexadecimal numeral denotes
RECURSIVE Pow16(_)
Pow16(n) == IF n = 0 THEN 1 ELSE 16 * Pow16(n - 1)

RECURSIVE SumFrom(_, _)
SumFrom(f, i) ==
    IF i > Len(f) THEN 0 ELSE ToDigit(f[i]) * Pow16(Len(f) - i) + SumFrom(f, i + 1)

HexValue(f) == SumFrom(f, 1)

\* a non-empty numeral of hexadecimal digits only, denoting at most 0xFFFF
PureHex16(f) == f # <<>> /\ (\A i \in 1..Len(f) : f[i] \in HexChars) /\ HexValue(f) <= U16Max

\* the text with its upper-case hexadecimal letters in lower case
Lower(t) ==
    [i \in 1..Len(t) |->
        CASE t[i] = "A" -> "a" [] t[i] = "B" -> "b" [] t[i] = "C" -> "c"
          [] t[i] = "D" -> "d" [] t[i] = "E" -> "e" [] t[i] = "F" -> "f"
          [] OTHER -> t[i]]

\* C13: for texts v:p of two hexadecimal numerals within 16 bits, in either
\* case, parse_device returns DeviceID{vid: v, pid: p}; fields after the
\* second are ignored, the result being that of the first two alone.
C13_ParseValid ==
    (parsed # Unparsed /\ Colons # {} /\ PureHex16(Field1) /\ PureHex16(Field2)) =>
        /\ parsed = ParseOk(DeviceID(HexValue(Field1), HexValue(Field2)))
        /\ parsed = parse_device(Lower(text))
        /\ parsed = parse_device(Field1 \o <<":">> \o Field2)

C13_Witness ==
    /\ parsed = ParseOk(DeviceID(U16Max, 240))
    /\ Cardinality(Colons) = 2
    /\ "F" \in Range(Field1) /\ "f" \in Range(Field1)

\* C14: parse_device fails with MissingSeparator for a text with no ':';
\* otherwise with InvalidVID carrying the first field when that field is
\* empty, holds a character that is no hexadecimal digit or exceeds 16 bits,
\* and with InvalidPID carrying the second field when the first is valid
\* and the second is not; it returns a DeviceID only when both fields are
\* pure hexadecimal numerals within 16 bits.
C14_ParseFailures ==
    parsed # Unparsed =>
        IF Colons = {} THEN parsed = ParseErr("MissingSeparator", <<>>)
        ELSE IF ~PureHex16(Field1) THEN parsed = ParseErr("InvalidVID", Field1)
        ELSE IF ~PureHex16(Field2) THEN parsed = ParseErr("InvalidPID", Field2)
        ELSE parsed.tag = "Ok"

====
